---- MODULE Spec2Model ----
(***************************************************************************)
(* Statement nodes of sql_ast (statements.go): rendering (String) and the  *)
(* dependency edges (dependedOn / solved) of the seven statement kinds.    *)
(*                                                                         *)
(* A Go string is a sequence of one-character strings, so that splitting,  *)
(* joining and formatting are computed character by character.  A nil      *)
(* pointer or nil interface is the record Nil.                             *)
(***************************************************************************)
EXTENDS Integers, Sequences, FiniteSets, TLC

VARIABLES stmt, supplied, calls, crashed

vars == <<stmt, supplied, calls, crashed>>

----------------------------------------------------------------------------
(* Bounds *)

\* largest number of '.' separators in a plain identifier
MaxDots == 2
\* largest number of columns of a table body / pairs of an insert
MaxFields == 2
\* number of threads calling into the one built statement
NumThreads == 2

Threads == 1..NumThreads

----------------------------------------------------------------------------
(* Text *)

Nil == [kind |-> "nil"]

SP == " "
DOT == "."
\* the backquote character of the panic message (the lexer cannot hold it in a string)
BQUOTE == "bq"

kwAlter == <<"a", "l", "t", "e", "r">>
kwCreate == <<"c", "r", "e", "a", "t", "e">>
kwDrop == <<"d", "r", "o", "p">>
kwIfNotExists == <<"i", "f", SP, "n", "o", "t", SP, "e", "x", "i", "s", "t", "s">>
kwUpdate == <<"u", "p", "d", "a", "t", "e">>
kwSet == <<"s", "e", "t">>
kwWhere == <<"w", "h", "e", "r", "e">>
kwOneEqOne == <<"1", SP, "=", SP, "1">>
kwOnConflict == <<"o", "n", SP, "c", "o", "n", "f", "l", "i", "c", "t">>
kwDoUpdateSet == <<"d", "o", SP, "u", "p", "d", "a", "t", "e", SP, "s", "e", "t">>
kwInsertInto == <<"i", "n", "s", "e", "r", "t", SP, "i", "n", "t", "o">>
kwValues == <<"v", "a", "l", "u", "e", "s">>
kwSelect == <<"s", "e", "l", "e", "c", "t">>
kwFrom == <<"f", "r", "o", "m">>
kwWith == <<"w", "i", "t", "h">>
kwAs == <<"a", "s">>
kwNilVerb == <<"%", "!", "s", "(", "<", "n", "i", "l", ">", ")">>
kwCannotResolve == <<"c", "a", "n", "n", "o", "t", SP, "r", "e", "s", "o", "l", "v", "e", SP,
                     "s", "c", "h", "e", "m", "a", SP, "f", "o", "r", SP, BQUOTE>>

\* strings.Join(parts, sep)
RECURSIVE Join(_, _)
Join(parts, sep) ==
    IF Len(parts) = 0 THEN <<>>
    ELSE IF Len(parts) = 1 THEN parts[1]
    ELSE parts[1] \o sep \o Join(Tail(parts), sep)

\* strings.Contains(s, ".")
HasDot(s) == \E i \in 1..Len(s) : s[i] = DOT

FirstDot(s) == CHOOSE i \in 1..Len(s) : s[i] = DOT /\ \A j \in 1..(i - 1) : s[j] # DOT

\* strings.Split(s, "."): every separator splits, the pieces keep their order
RECURSIVE Split(_)
Split(s) ==
    IF ~HasDot(s) THEN <<s>>
    ELSE <<SubSeq(s, 1, FirstDot(s) - 1)>> \o Split(SubSeq(s, FirstDot(s) + 1, Len(s)))

\* the strings of a list that are not empty, in order
RECURSIVE NonEmpty(_)
NonEmpty(parts) ==
    IF Len(parts) = 0 THEN <<>>
    ELSE IF Len(parts[1]) = 0 THEN NonEmpty(Tail(parts))
    ELSE <<parts[1]>> \o NonEmpty(Tail(parts))

\* utils.NonEmptyStringsConcatSpaceSeparated(parts...)
NonEmptyStringsConcatSpaceSeparated(parts) == Join(NonEmpty(parts), <<SP>>)

----------------------------------------------------------------------------
(* Identifiers, targets, expressions *)

TargetSchema == "schema"
TargetTable == "table"
TargetConstraint == "constraint"

Targets == {TargetSchema, TargetTable, TargetConstraint}

\* SqlTarget rendered with %s
TargetText(t) ==
    CASE t = TargetSchema -> <<"s", "c", "h", "e", "m", "a">>
      [] t = TargetTable -> <<"t", "a", "b", "l", "e">>
      [] t = TargetConstraint -> <<"c", "o", "n", "s", "t", "r", "a", "i", "n", "t">>

\* SqlIdent.GetName(): the identifier's own name, the rightmost part of a selector
GetName(id) == IF id.kind = "Selector" THEN id.Name ELSE id.name

\* SqlExpr.String()
ExprString(e) == e.text

\* SqlExpr.dependedOn()
ExprDependedOn(e) == e.deps

\* NamedObject{Schema, Object, Field}
NamedObject(s, o, f) == [Schema |-> s, Object |-> o, Field |-> f]

dependedOn2(s, o) == <<NamedObject(s, o, <<>>)>>

dependedOn3(s, o, f) == <<NamedObject(s, o, f)>>

concatDependencies(a, b) == a \o b

\* a returned string, a returned Dependencies, and a panic that ends the process
Text(v) == [kind |-> "text", value |-> v]

Deps(v) == [kind |-> "deps", value |-> v]

Panic(msg) == [kind |-> "panic", value |-> msg]

\* the String() of each expression of a list, in order
ExprStrings(es) == [i \in 1..Len(es) |-> ExprString(es[i])]

----------------------------------------------------------------------------
(* AlterStmt *)

AlterString(c) ==
    kwAlter \o <<SP>> \o TargetText(c.Target) \o <<SP>> \o GetName(c.Name)
            \o <<SP>> \o ExprString(c.Alter)

AlterDependedOn(c) == Deps(ExprDependedOn(c.Alter))

\* the (s, o) of AlterStmt.solved, or the panic message
AlterResolve(c) ==
    IF c.Name.kind = "Selector"
    THEN [ok |-> TRUE, s |-> c.Name.Container, o |-> c.Name.Name]
    ELSE LET n == Split(GetName(c.Name)) IN
         IF Len(n) > 1
         THEN [ok |-> TRUE, s |-> n[1], o |-> n[2]]
         ELSE IF c.Target = TargetSchema
              THEN [ok |-> TRUE, s |-> GetName(c.Name), o |-> <<>>]
              ELSE [ok |-> FALSE,
                    msg |-> kwCannotResolve \o GetName(c.Name) \o <<BQUOTE>>]

\* AlterSolved as it would be if it also emitted the table-level edge, as Create does
AlterSolvedWithTableEdge(c) ==
    LET r == AlterResolve(c)
        f == IF c.Alter.kind = "AddExpr" THEN GetName(c.Alter.Name) ELSE <<>>
    IN  IF ~r.ok THEN Panic(r.msg)
        ELSE IF Len(f) = 0 THEN Deps(dependedOn3(r.s, r.o, f))
        ELSE Deps(concatDependencies(dependedOn2(r.s, r.o), dependedOn3(r.s, r.o, f)))

AlterSolved(c) ==
    LET r == AlterResolve(c)
        f == IF c.Alter.kind = "AddExpr" THEN GetName(c.Alter.Name) ELSE <<>>
    IN  IF ~r.ok THEN Panic(r.msg) ELSE Deps(dependedOn3(r.s, r.o, f))

----------------------------------------------------------------------------
(* CreateStmt *)

CreateString(c) ==
    LET ifNotExists == IF c.IfNotX THEN kwIfNotExists ELSE <<>>
        create == IF c.Create = Nil THEN <<>> ELSE ExprString(c.Create)
    IN  IF c.Target = TargetConstraint
        THEN NonEmptyStringsConcatSpaceSeparated(<<kwCreate, create>>)
        ELSE NonEmptyStringsConcatSpaceSeparated(
                 <<kwCreate, TargetText(c.Target), ifNotExists, GetName(c.Name), create>>)

CreateDependedOn(c) ==
    IF c.Create # Nil THEN Deps(ExprDependedOn(c.Create)) ELSE Deps(<<>>)

\* the (s, o) of CreateStmt.solved, or the panic message
CreateResolve(c) ==
    IF c.Name.kind = "Selector"
    THEN [ok |-> TRUE, s |-> c.Name.Container, o |-> c.Name.Name]
    ELSE LET n == Split(GetName(c.Name)) IN
         IF Len(n) > 1
         THEN [ok |-> TRUE, s |-> n[1], o |-> n[2]]
         ELSE IF c.Target = TargetSchema
              THEN [ok |-> TRUE, s |-> GetName(c.Name), o |-> <<>>]
              ELSE [ok |-> FALSE,
                    msg |-> kwCannotResolve \o GetName(c.Name) \o <<BQUOTE>>]

\* the loop over body.Fields of CreateStmt.solved
RECURSIVE CreateFieldsLoop(_, _, _, _)
CreateFieldsLoop(result, s, o, fields) ==
    IF Len(fields) = 0 THEN result
    ELSE CreateFieldsLoop(
             concatDependencies(result, dependedOn3(s, o, GetName(fields[1].Name))),
             s, o, Tail(fields))

\* CreateSolved as it would be if the loop started from an empty result
CreateSolvedColumnsOnly(c) ==
    LET r == CreateResolve(c) IN
    IF ~r.ok THEN Panic(r.msg)
    ELSE IF c.Create # Nil /\ c.Create.kind = "TableBodyDescriber"
         THEN Deps(CreateFieldsLoop(<<>>, r.s, r.o, c.Create.Fields))
         ELSE Deps(dependedOn2(r.s, r.o))

CreateSolved(c) ==
    LET r == CreateResolve(c) IN
    IF ~r.ok THEN Panic(r.msg)
    ELSE IF c.Create # Nil /\ c.Create.kind = "TableBodyDescriber"
         THEN Deps(CreateFieldsLoop(dependedOn2(r.s, r.o), r.s, r.o, c.Create.Fields))
         ELSE Deps(dependedOn2(r.s, r.o))

----------------------------------------------------------------------------
(* DropStmt *)

DropString(c) ==
    NonEmptyStringsConcatSpaceSeparated(<<kwDrop, TargetText(c.Target), GetName(c.Name)>>)

DropDependedOn(c) == Deps(<<>>)

\* DropSolved as it would be if it resolved and emitted the dropped object
DropSolvedLikeCreate(c) ==
    CreateSolved([kind |-> "Create", Target |-> c.Target, Name |-> c.Name,
                  Create |-> Nil, IfNotX |-> FALSE])

DropSolved(c) == Deps(<<>>)

----------------------------------------------------------------------------
(* UpdateStmt *)

UpdateString(c) ==
    LET clauseSet == ExprStrings(c.Set)
        clauseWhere == IF c.Where # Nil THEN ExprString(c.Where) ELSE kwOneEqOne
    IN  kwUpdate \o <<SP>> \o GetName(c.Table.Table) \o <<SP>> \o c.Table.Alias
                 \o <<SP>> \o kwSet \o <<SP>> \o Join(clauseSet, <<",", SP>>)
                 \o <<SP>> \o kwWhere \o <<SP>> \o clauseWhere

RECURSIVE UpdateSetLoop(_, _)
UpdateSetLoop(result, set) ==
    IF Len(set) = 0 THEN result
    ELSE UpdateSetLoop(concatDependencies(result, ExprDependedOn(set[1])), Tail(set))

UpdateDependedOn(c) == Deps(UpdateSetLoop(<<>>, c.Set))

UpdateSolved(c) == Deps(<<>>)

----------------------------------------------------------------------------
(* OnConflict and InsertStmt *)

OnConflictString(c) ==
    IF c = Nil THEN <<>>
    ELSE kwOnConflict \o <<SP>> \o ExprString(c.Cause) \o <<SP>> \o kwDoUpdateSet
                      \o <<SP>> \o Join(ExprStrings(c.Set), <<",", SP>>)

\* the orders in which one range over a map can visit its keys
RECURSIVE MapIterationOrders(_)
MapIterationOrders(keys) ==
    IF keys = {} THEN {<<>>}
    ELSE UNION {{<<k>> \o rest : rest \in MapIterationOrders(keys \ {k})} : k \in keys}

\* order: the keys of c.Insert in the order this run of the range loop visits them
InsertString(c, order) ==
    LET fieldsList == order
        valuesList == [i \in 1..Len(order) |-> ExprString(c.Insert[order[i]])]
    IN  kwInsertInto \o <<SP>> \o GetName(c.Table.Table)
                     \o <<SP, "(">> \o Join(fieldsList, <<",", SP>>) \o <<")">>
                     \o <<SP>> \o kwValues
                     \o <<SP, "(">> \o Join(valuesList, <<",", SP>>) \o <<")">>
                     \o <<SP>> \o OnConflictString(c.OnConflict)

InsertDependedOn(c) == Deps(<<NamedObject(<<>>, GetName(c.Table.Table), <<>>)>>)

InsertSolved(c) == Deps(<<>>)

----------------------------------------------------------------------------
(* SelectStmt *)

SelectString(c) ==
    LET clauseColumns == ExprStrings(c.Columns)
        clauseWhere == IF c.Where # Nil THEN ExprString(c.Where) ELSE kwOneEqOne
    IN  kwSelect \o <<SP>> \o Join(clauseColumns, <<",", SP>>)
                 \o <<SP>> \o kwFrom \o <<SP>> \o GetName(c.From.Table)
                 \o <<SP>> \o c.From.Alias
                 \o <<SP>> \o kwWhere \o <<SP>> \o clauseWhere

\* SelectDependedOn as it would be if it named the table selected from
SelectDependedOnFrom(c) == Deps(<<NamedObject(<<>>, GetName(c.From.Table), <<>>)>>)

SelectDependedOn(c) == Deps(<<>>)

SelectSolved(c) == Deps(<<>>)

----------------------------------------------------------------------------
(* WithStmt *)

\* %s of a SelectStmt value: String has a pointer receiver, so the value is
\* no Stringer and fmt prints the struct field by field
FmtSelectValue(c) ==
    <<"{", "[">> \o Join(ExprStrings(c.Columns), <<SP>>) \o <<"]", SP>>
        \o <<"{">> \o GetName(c.From.Table) \o <<SP>> \o c.From.Alias \o <<"}", SP>>
        \o (IF c.Where = Nil THEN kwNilVerb ELSE ExprString(c.Where)) \o <<"}">>

WithString(c) ==
    kwWith \o <<SP>> \o c.Name \o <<SP>> \o kwAs \o <<SP, "(">> \o FmtSelectValue(c.With)
           \o <<")", SP>> \o FmtSelectValue(c.Select)

WithDependedOn(c) ==
    Deps(SelectDependedOn(c.Select).value \o SelectDependedOn(c.With).value)

WithSolved(c) ==
    Deps(SelectSolved(c.Select).value \o SelectSolved(c.With).value)

----------------------------------------------------------------------------
(* The statements a builder can hand over *)

Segs == {<<"s">>, <<"o">>}

\* plain names with exactly d separators
RECURSIVE Dotted(_)
Dotted(d) ==
    IF d = 0 THEN Segs ELSE {h \o <<DOT>> \o t : h \in Segs, t \in Dotted(d - 1)}

PlainIdents == {[kind |-> "Name", name |-> n] : n \in UNION {Dotted(d) : d \in 0..MaxDots}}

Selectors == {[kind |-> "Selector", Container |-> <<"s">>, Name |-> n] : n \in Segs}

Idents == PlainIdents \cup Selectors

ColNames == {<<"a">>, <<"b">>}

ColIdent(n) == [kind |-> "Name", name |-> n]

\* sequences over S of length at most n
RECURSIVE SeqsUpTo(_, _)
SeqsUpTo(S, n) ==
    IF n = 0 THEN {<<>>}
    ELSE SeqsUpTo(S, n - 1) \cup {Append(q, x) : q \in {r \in SeqsUpTo(S, n - 1) : Len(r) = n - 1}, x \in S}

OtherExprs ==
    {[kind |-> "Other", text |-> <<>>, deps |-> <<>>],
     [kind |-> "Other", text |-> <<"x">>, deps |-> <<>>],
     [kind |-> "Other", text |-> <<"y">>, deps |-> <<NamedObject(<<"s">>, <<"t">>, <<>>)>>]}

AddExprs ==
    {[kind |-> "AddExpr", Name |-> ColIdent(n), text |-> <<"+">> \o n, deps |-> <<>>] :
        n \in ColNames}

TableBodies ==
    {[kind |-> "TableBodyDescriber",
      Fields |-> [i \in 1..Len(q) |-> [Name |-> ColIdent(q[i])]],
      text |-> IF Len(q) = 0 THEN <<>> ELSE <<"(">> \o Join(q, <<",">>) \o <<")">>,
      deps |-> <<>>] : q \in SeqsUpTo(ColNames, MaxFields)}

Exprs == OtherExprs \cup AddExprs \cup TableBodies

ValueExprs == {e \in OtherExprs : Len(e.text) > 0}

TableDescs ==
    {[Table |-> id, Alias |-> a] :
        id \in {[kind |-> "Name", name |-> <<"o">>],
                [kind |-> "Name", name |-> <<"s", DOT, "o">>],
                [kind |-> "Selector", Container |-> <<"s">>, Name |-> <<"o">>]},
        a \in {<<>>, <<"t">>}}

AlterStmts ==
    {[kind |-> "Alter", Target |-> t, Name |-> n, Alter |-> e] :
        t \in Targets, n \in Idents, e \in {x \in Exprs : Len(x.text) > 0}}

CreateStmts ==
    {[kind |-> "Create", Target |-> t, Name |-> n, Create |-> e, IfNotX |-> x] :
        t \in Targets, n \in Idents, e \in Exprs \cup {Nil}, x \in BOOLEAN}

DropStmts == {[kind |-> "Drop", Target |-> t, Name |-> n] : t \in Targets, n \in Idents}

OnConflicts ==
    {Nil, [Cause |-> [kind |-> "Other", text |-> <<"k">>, deps |-> <<>>],
           Set |-> <<[kind |-> "Other", text |-> <<"x">>, deps |-> <<>>]>>]}

\* the (field, expression) pairs a builder supplies: no field twice
InsertPairs ==
    {q \in SeqsUpTo(ColNames \X ValueExprs, MaxFields) :
        \A i, j \in 1..Len(q) : i # j => q[i][1] # q[j][1]}

\* InsertStmt.Insert is a map: it keeps each field's expression and no order
BuildInsert(table, pairs, onConflict) ==
    [kind |-> "Insert", Table |-> table,
     Insert |-> [f \in {pairs[i][1] : i \in 1..Len(pairs)} |->
                    pairs[CHOOSE i \in 1..Len(pairs) : pairs[i][1] = f][2]],
     OnConflict |-> onConflict]

UpdateStmts ==
    {[kind |-> "Update", Table |-> t, Set |-> q, Where |-> w] :
        t \in TableDescs, q \in SeqsUpTo(ValueExprs, MaxFields) \ {<<>>},
        w \in ValueExprs \cup {Nil}}

SelectValues(tables) ==
    {[kind |-> "Select", Columns |-> q, From |-> t, Where |-> w] :
        t \in tables, q \in SeqsUpTo(ValueExprs, MaxFields) \ {<<>>},
        w \in ValueExprs \cup {Nil}}

SelectStmts == SelectValues(TableDescs)

WithStmts ==
    {[kind |-> "With", Name |-> <<"w">>, With |-> a, Select |-> b] :
        a, b \in {c \in SelectValues({t \in TableDescs : t.Table.kind = "Name"
                                                       /\ Len(t.Table.name) = 1}) :
                     Len(c.Columns) = 1 /\ c.Where # [kind |-> "Other", text |-> <<"x">>, deps |-> <<>>]}}

----------------------------------------------------------------------------
(* Dispatch on the statement kind *)

String(c, order) ==
    CASE c.kind = "Alter" -> Text(AlterString(c))
      [] c.kind = "Create" -> Text(CreateString(c))
      [] c.kind = "Drop" -> Text(DropString(c))
      [] c.kind = "Insert" -> Text(InsertString(c, order))
      [] c.kind = "Update" -> Text(UpdateString(c))
      [] c.kind = "Select" -> Text(SelectString(c))
      [] c.kind = "With" -> Text(WithString(c))

DependedOn(c) ==
    CASE c.kind = "Alter" -> AlterDependedOn(c)
      [] c.kind = "Create" -> CreateDependedOn(c)
      [] c.kind = "Drop" -> DropDependedOn(c)
      [] c.kind = "Insert" -> InsertDependedOn(c)
      [] c.kind = "Update" -> UpdateDependedOn(c)
      [] c.kind = "Select" -> SelectDependedOn(c)
      [] c.kind = "With" -> WithDependedOn(c)

Solved(c) ==
    CASE c.kind = "Alter" -> AlterSolved(c)
      [] c.kind = "Create" -> CreateSolved(c)
      [] c.kind = "Drop" -> DropSolved(c)
      [] c.kind = "Insert" -> InsertSolved(c)
      [] c.kind = "Update" -> UpdateSolved(c)
      [] c.kind = "Select" -> SelectSolved(c)
      [] c.kind = "With" -> WithSolved(c)

----------------------------------------------------------------------------
(* A built statement and the threads that read it *)

NoCall == [op |-> "none"]

Init ==
    /\ \/ /\ stmt \in AlterStmts \cup CreateStmts \cup DropStmts \cup UpdateStmts
                       \cup SelectStmts \cup WithStmts
          /\ supplied = <<>>
       \/ \E t \in TableDescs, oc \in OnConflicts :
             /\ supplied \in InsertPairs
             /\ stmt = BuildInsert(t, supplied, oc)
    /\ calls = [t \in Threads |-> NoCall]
    /\ crashed = FALSE

\* thread t renders the statement
CallString(t) ==
    /\ ~crashed
    /\ calls[t] = NoCall
    /\ \E order \in (IF stmt.kind = "Insert" THEN MapIterationOrders(DOMAIN stmt.Insert)
                                              ELSE {<<>>}) :
          calls' = [calls EXCEPT ![t] = [op |-> "String", result |-> String(stmt, order)]]
    /\ UNCHANGED <<stmt, supplied, crashed>>

\* thread t asks for the edges the statement depends on
CallDependedOn(t) ==
    /\ ~crashed
    /\ calls[t] = NoCall
    /\ calls' = [calls EXCEPT ![t] = [op |-> "dependedOn", result |-> DependedOn(stmt)]]
    /\ UNCHANGED <<stmt, supplied, crashed>>

\* thread t asks for the edges the statement solves; a panic ends the process
CallSolved(t) ==
    /\ ~crashed
    /\ calls[t] = NoCall
    /\ calls' = [calls EXCEPT ![t] = [op |-> "solved", result |-> Solved(stmt)]]
    /\ crashed' = (Solved(stmt).kind = "panic")
    /\ UNCHANGED <<stmt, supplied>>

Next ==
    \E t \in Threads : CallString(t) \/ CallDependedOn(t) \/ CallSolved(t)

Spec == Init /\ [][Next]_vars

----------------------------------------------------------------------------
(* Properties *)

IsCreateOrAlter == stmt.kind \in {"Create", "Alter"}

\* the name is plain, has no separator, and the target is not a schema
Unresolvable ==
    /\ IsCreateOrAlter
    /\ stmt.Name.kind # "Selector"
    /\ ~HasDot(GetName(stmt.Name))
    /\ stmt.Target # TargetSchema

\* the (s, o) that lines 62-73 / 101-112 computed for the built statement
Resolved == IF stmt.kind = "Create" THEN CreateResolve(stmt) ELSE AlterResolve(stmt)

BeforeFirstDot(s) == SubSeq(s, 1, FirstDot(s) - 1)

AfterFirstDot(s) == SubSeq(s, FirstDot(s) + 1, Len(s))

\* C1: solved() of a Create/Alter with an unqualified, undotted name and a
\* non-schema target returns a recoverable UnresolvableSchemaReference error
\* value carrying the name; the process goes on and no edges are returned.
C1_UnresolvableIsRecoverable ==
    \A t \in Threads :
        (Unresolvable /\ calls[t].op = "solved") =>
            /\ calls[t].result.kind = "error"
            /\ calls[t].result.value = GetName(stmt.Name)
            /\ ~crashed

\* C2: dependedOn() of an Insert is exactly one edge {schema, object, ""}
\* with the schema and object that name resolution gives for the table
\* identifier; the schema is never empty and the object is the resolved
\* object name, not the whole qualified name.
C2_InsertEdgeResolved ==
    \A t \in Threads :
        (stmt.kind = "Insert" /\ calls[t].op = "dependedOn") =>
            LET id == stmt.Table.Table
                e == calls[t].result.value
            IN  /\ calls[t].result.kind = "deps"
                /\ Len(e) = 1
                /\ Len(e[1].Schema) > 0
                /\ e[1].Field = <<>>
                /\ id.kind = "Selector" =>
                       e[1].Schema = id.Container /\ e[1].Object = id.Name
                /\ (id.kind = "Name" /\ HasDot(id.name)) =>
                       /\ e[1].Schema = BeforeFirstDot(id.name)
                       /\ e[1].Object = AfterFirstDot(id.name)

\* the columns of the table body of a Create, in declaration order
BodyColumns ==
    IF stmt.Create # Nil /\ stmt.Create.kind = "TableBodyDescriber"
    THEN [i \in 1..Len(stmt.Create.Fields) |-> GetName(stmt.Create.Fields[i].Name)]
    ELSE <<>>

\* C3: solved() of a Create whose name resolves to (s, o) is {s, o, ""}
\* followed by one {s, o, c} per column c of a table body, in declaration
\* order with duplicates kept (n + 1 edges), and is [{s, o, ""}] alone when
\* Create is absent or any other expression.
C3_CreateSolvedEdges ==
    \A t \in Threads :
        (stmt.kind = "Create" /\ calls[t].op = "solved" /\ Resolved.ok) =>
            LET e == calls[t].result.value IN
            /\ calls[t].result.kind = "deps"
            /\ Len(e) = Len(BodyColumns) + 1
            /\ e[1] = [Schema |-> Resolved.s, Object |-> Resolved.o, Field |-> <<>>]
            /\ \A i \in 1..Len(BodyColumns) :
                   e[i + 1] = [Schema |-> Resolved.s, Object |-> Resolved.o,
                               Field |-> BodyColumns[i]]

\* a Create with a two-column body, the same column twice, whose solved() returned
C3_Witness ==
    \E t \in Threads :
        /\ stmt.kind = "Create" /\ calls[t].op = "solved"
        /\ Len(BodyColumns) = 2 /\ BodyColumns[1] = BodyColumns[2]
        /\ calls[t].result.kind = "deps" /\ Len(calls[t].result.value) = 3

\* C4: an Insert renders its fields and values in the order the pairs were
\* supplied at construction, the i-th value with the i-th field, so every
\* render of one Insert gives the same text.
C4_InsertRenderOrder ==
    \A t \in Threads :
        (stmt.kind = "Insert" /\ calls[t].op = "String") =>
            LET fields == [i \in 1..Len(supplied) |-> supplied[i][1]]
                values == [i \in 1..Len(supplied) |-> ExprString(supplied[i][2])]
                txt == calls[t].result.value
                head == kwInsertInto \o <<SP>> \o GetName(stmt.Table.Table)
                            \o <<SP, "(">> \o Join(fields, <<",", SP>>) \o <<")">>
                            \o <<SP>> \o kwValues
                            \o <<SP, "(">> \o Join(values, <<",", SP>>) \o <<")">>
            IN  /\ Len(txt) >= Len(head)
                /\ SubSeq(txt, 1, Len(head)) = head
                /\ \A u \in Threads :
                       calls[u].op = "String" => calls[u].result = calls[t].result

NoDoubleSpace(txt) == \A i \in 1..(Len(txt) - 1) : ~(txt[i] = SP /\ txt[i + 1] = SP)

NoTrailingSpace(txt) == Len(txt) > 0 => txt[Len(txt)] # SP

\* C5: the rendered text of every statement kind never has two consecutive
\* spaces and never ends with a space: empty or absent optional tokens are
\* left out.
C5_SingleSpaces ==
    \A t \in Threads :
        calls[t].op = "String" =>
            /\ NoDoubleSpace(calls[t].result.value)
            /\ NoTrailingSpace(calls[t].result.value)

\* C6: a plain Create/Alter name containing a separator is split at the first
\* separator only: schema is the text before it, object all of the text
\* after it, further separators included.
C6_SplitAtFirstDot ==
    \A t \in Threads :
        (/\ IsCreateOrAlter
         /\ stmt.Name.kind = "Name"
         /\ HasDot(stmt.Name.name)
         /\ calls[t].op = "solved") =>
            /\ calls[t].result.kind = "deps"
            /\ calls[t].result.value[1].Schema = BeforeFirstDot(stmt.Name.name)
            /\ calls[t].result.value[1].Object = AfterFirstDot(stmt.Name.name)

\* C7: solved() of an Alter whose name resolves to (s, o) is the single edge
\* {s, o, f}: f is the column of an add-column expression and "" for any
\* other expression, and no table-level edge {s, o, ""} is added beside a
\* non-empty f.
C7_AlterSolvedSingleEdge ==
    \A t \in Threads :
        (stmt.kind = "Alter" /\ calls[t].op = "solved" /\ Resolved.ok) =>
            LET e == calls[t].result.value IN
            /\ calls[t].result.kind = "deps"
            /\ Len(e) = 1
            /\ e[1].Schema = Resolved.s
            /\ e[1].Object = Resolved.o
            /\ stmt.Alter.kind = "AddExpr" => e[1].Field = GetName(stmt.Alter.Name)
            /\ stmt.Alter.kind # "AddExpr" => e[1].Field = <<>>

\* an Alter with an add-column expression whose solved() returned
C7_Witness ==
    \E t \in Threads :
        /\ stmt.kind = "Alter" /\ stmt.Alter.kind = "AddExpr"
        /\ calls[t].op = "solved" /\ calls[t].result.kind = "deps"
        /\ Len(calls[t].result.value[1].Field) > 0

\* C8: dependedOn() of a With is Select.dependedOn() followed by
\* With.dependedOn(), solved() is Select.solved() followed by With.solved(),
\* and with the current SelectStmt both are empty.
C8_WithComposition ==
    \A t \in Threads :
        stmt.kind = "With" =>
            /\ calls[t].op = "dependedOn" =>
                   /\ calls[t].result.kind = "deps"
                   /\ calls[t].result.value =
                          DependedOn(stmt.Select).value \o DependedOn(stmt.With).value
                   /\ calls[t].result.value = <<>>
            /\ calls[t].op = "solved" =>
                   /\ calls[t].result.kind = "deps"
                   /\ calls[t].result.value =
                          Solved(stmt.Select).value \o Solved(stmt.With).value
                   /\ calls[t].result.value = <<>>

\* a With on which one thread called dependedOn() and another solved()
C8_Witness ==
    \E t, u \in Threads :
        /\ stmt.kind = "With"
        /\ calls[t].op = "dependedOn" /\ calls[u].op = "solved"

\* C9: dependedOn() and solved() of a Drop are empty for every Target and
\* Name, the unqualified name with a non-schema target included, and never
\* fail.
C9_DropIsInert ==
    \A t \in Threads :
        (stmt.kind = "Drop" /\ calls[t].op \in {"dependedOn", "solved"}) =>
            /\ calls[t].result = Deps(<<>>)
            /\ ~crashed

\* a Drop of an unqualified name with a non-schema target, both operations called
C9_Witness ==
    \E t, u \in Threads :
        /\ stmt.kind = "Drop" /\ stmt.Name.kind = "Name" /\ ~HasDot(stmt.Name.name)
        /\ stmt.Target = TargetTable
        /\ calls[t].op = "dependedOn" /\ calls[u].op = "solved"

\* every two threads that made the same call hold the same result
SameResults ==
    \A t, u \in Threads :
        (calls[t].op # "none" /\ calls[t].op = calls[u].op) =>
            calls[t].result = calls[u].result

\* C10: threads calling String, dependedOn and solved on one built statement
\* in any interleaving never change the statement, and all callers of one
\* operation get the identical result, elements in the same order.
C10_ConcurrentReadsAgree == [][stmt' = stmt /\ SameResults']_vars

====
